---- MODULE Spec2Model ----
(***************************************************************************)
(* Model of GitHubNotifierPlugin                                           *)
(* (packages/reg-notify-github-plugin/src/github-notifier-plugin.ts).      *)
(*                                                                         *)
(* The plugin instance is initialised once by init and then asked to       *)
(* notify.  notify is an async function: it runs synchronously up to each  *)
(* await of an Octokit call and resumes when the remote call settles.      *)
(* Each such segment is one action here; the remote service is the         *)
(* environment and settles every call with success, with a structured      *)
(* error (name "StatusCodeError") or with an opaque error.                 *)
(***************************************************************************)
EXTENDS Integers, Sequences, FiniteSets, TLC

----------------------------------------------------------------------------
(* Optional values (undefined / present) are sequences of length 0 or 1.   *)
None == <<>>
Some(x) == <<x>>
IsSome(m) == m # <<>>
Get(m) == m[1]
Maybe(S) == {None} \cup {Some(x) : x \in S}

----------------------------------------------------------------------------
(* Bounds of the model.                                                    *)
MaxItems == 2          \* items of one comparison result, all lists together

(* Finite stand-ins for the strings the environment supplies.              *)
Owners == {"acme"}
Repositories == {"webapp"}
BranchNames == {"feature"}
BranchTips == {"c0ffee"}     \* commit at the tip of a branch
DetachedCommits == {"decade"}  \* commit a detached HEAD points at
Urls == {"", "https://report.example/index.html"}
PullNumbers == {7, 8}
Messages == {"bad credentials"}
RegconfigIds == {"cfg"}
CallIds == {1, 2}       \* names of the notify invocations

----------------------------------------------------------------------------
(* type PrCommentBehavior                                                  *)
PrCommentBehavior == {"default", "once", "new"}

(* interface GitHubPluginOption, without the clientId path: the policy     *)
(* options may each be omitted.                                            *)
GitHubPluginOption ==
  [owner : Owners, repository : Repositories,
   prComment : Maybe(BOOLEAN), prCommentBehavior : Maybe(PrCommentBehavior),
   setCommitStatus : Maybe(BOOLEAN), shortDescription : Maybe(BOOLEAN),
   regconfigId : {Some(r) : r \in RegconfigIds}]

(* PluginCreateOptions<GitHubPluginOption>: the dry-run flag and options.  *)
PluginCreateOptions == [noEmit : BOOLEAN, options : GitHubPluginOption]

(* JavaScript truthiness of an optional string: undefined and "" are falsy *)
Truthy(m) == IsSome(m) /\ Get(m) # ""

(* a !== false on an optional boolean                                      *)
NotFalse(m) == m # Some(FALSE)

(* a ?? d                                                                  *)
OrElse(m, d) == IF IsSome(m) THEN Get(m) ELSE d

----------------------------------------------------------------------------
(* What Repository.readHeadSync can return: HEAD on a branch, a detached   *)
(* HEAD, or a HEAD with neither branch nor commit.                         *)
Heads ==
  {[type |-> "branch", branch |-> Some([name |-> n, commit |-> [hash |-> h]]),
    commit |-> None] : n \in BranchNames, h \in BranchTips}
  \cup {[type |-> "commit", branch |-> None, commit |-> Some([hash |-> h])]
        : h \in DetachedCommits}
  \cup {[type |-> "commit", branch |-> None, commit |-> None]}

(* comparisonResult: four item lists, identified by their lengths.         *)
ComparisonResults ==
  {r \in [failedItems : 0..MaxItems, newItems : 0..MaxItems,
          deletedItems : 0..MaxItems, passedItems : 0..MaxItems] :
     r.failedItems + r.newItems + r.deletedItems + r.passedItems <= MaxItems}

(* NotifyParams                                                            *)
NotifyParams == [comparisonResult : ComparisonResults, reportUrl : Maybe(Urls)]

----------------------------------------------------------------------------
(* The settlements of a remote call.  A structured error is what         *)
(* isGhAppError recognises; any other rejection is opaque.                 *)
StructuredErrors ==
  {[name |-> "StatusCodeError", statusCode |-> 401, error |-> [message |-> m]]
   : m \in Messages}
OpaqueErrors == {[name |-> "HttpError", status |-> 500]}
Rejections ==
  {[status |-> "rejected", value |-> e] : e \in StructuredErrors \cup OpaqueErrors}

(* pulls.list resolves with the list of matching pull requests, each with  *)
(* a number of its own.                                                    *)
PullLists ==
  {l \in UNION {[1..n -> [number : PullNumbers]]
                : n \in 0..Cardinality(PullNumbers)} :
     \A i, j \in DOMAIN l : l[i].number = l[j].number => i = j}
ListSettlements ==
  {[status |-> "fulfilled", value |-> [data |-> l]] : l \in PullLists}
  \cup Rejections
PlainSettlements ==
  {[status |-> "fulfilled", value |-> [data |-> <<>>]]} \cup Rejections

Pending == [status |-> "pending", value |-> None]

----------------------------------------------------------------------------
VARIABLES
  inst,     \* the fields of the plugin instance
  call      \* per notify invocation: its locals, the Octokit calls it issued,
            \* the log entries it wrote and the settlement of its promise

vars == <<inst, call>>

(* A notify invocation that has not been made yet.                         *)
Idle ==
  [pc |-> "idle", head |-> None, params |-> None, sha1 |-> None,
   state |-> None, description |-> None, prCommentBody |-> None,
   pr |-> None,
   reqs |-> <<>>, log |-> <<>>, result |-> Pending]

Entry(level, text, args) == [level |-> level, text |-> text, args |-> args]
Request(api, args) == [api |-> api, args |-> args, outcome |-> Pending]

Init ==
  /\ inst = [initialised |-> FALSE]
  /\ call = [c \in CallIds |-> Idle]

----------------------------------------------------------------------------
(* init(config), for options without a clientId.                           *)
init(cfg) ==
  /\ ~inst.initialised
  /\ inst' = [initialised |-> TRUE,
              _noEmit |-> cfg.noEmit,
              _apiOpt |-> cfg.options,
              _prComment |-> NotFalse(cfg.options.prComment),
              _behavior |-> OrElse(cfg.options.prCommentBehavior, "default"),
              _setCommitStatus |-> NotFalse(cfg.options.setCommitStatus),
              _shortDescription |-> OrElse(cfg.options.shortDescription, FALSE),
              _regconfigId |-> OrElse(cfg.options.regconfigId, "")]
  /\ UNCHANGED call

----------------------------------------------------------------------------
(* isGhAppError(x)                                                         *)
isGhAppError(x) == "name" \in DOMAIN x /\ x.name = "StatusCodeError"

(* errorHandler(logger)(reason): what it logs and the rejection it returns *)
errorHandler(reason) ==
  IF isGhAppError(reason)
  THEN [logged |-> <<Entry("error", reason.error.message, <<>>)>>,
        rejected |-> reason.error]
  ELSE [logged |-> <<>>, rejected |-> reason]

(* if (this._noEmit) return; spinner.start(); spinner.stop();              *)
Finish(k) ==
  [k EXCEPT !.pc = "done",
            !.result = [status |-> "fulfilled", value |-> None],
            !.log = IF inst._noEmit THEN @
                    ELSE @ \o <<Entry("spinner", "start", <<>>),
                                Entry("spinner", "stop", <<>>)>>]

(* A catch block that logs the error and lets notify return normally.      *)
Caught_Swallowed(k, err) ==
  Finish([k EXCEPT !.log = @ \o errorHandler(err).logged])

(* A catch block that issues the failed call a second time.                *)
Caught_RetriesOnce(k, err) ==
  LET last == k.reqs[Len(k.reqs)]
      tries == Cardinality({i \in DOMAIN k.reqs : k.reqs[i].api = last.api})
  IN IF tries < 2
     THEN [k EXCEPT !.reqs = Append(@, Request(last.api, last.args))]
     ELSE [k EXCEPT !.pc = "done",
                    !.log = @ \o errorHandler(err).logged,
                    !.result = [status |-> "rejected",
                                value |-> Some(errorHandler(err).rejected)]]

(* catch (err) { const handler = errorHandler(this._logger);               *)
(*               await handler(err); }                                     *)
(* The awaited promise is rejected, so the await throws out of notify.     *)
Caught(k, err) ==
  [k EXCEPT !.pc = "done",
            !.log = @ \o errorHandler(err).logged,
            !.result = [status |-> "rejected",
                        value |-> Some(errorHandler(err).rejected)]]

(* The outcome of the pending Octokit call of an invocation is recorded.   *)
Settle(rs, o) ==
  [i \in DOMAIN rs |->
     IF rs[i].outcome.status = "pending" THEN [rs[i] EXCEPT !.outcome = o]
     ELSE rs[i]]

----------------------------------------------------------------------------
(* _createCommentBody with the new and deleted counts exchanged.           *)
_createCommentBody_Swapped(body) ==
  << "Comparison result:",
     "    - Failed items: " \o ToString(body.failedItemsCount),
     "    - New items: " \o ToString(body.deletedItemsCount),
     "    - Deleted items: " \o ToString(body.newItemsCount),
     "    - Passed items: " \o ToString(body.passedItemsCount),
     "    " \o (IF body.shortDescription THEN " - Short descriptions enabled"
                ELSE ""),
     "    " \o (IF Truthy(body.reportUrl)
                THEN " - [Report URL](" \o Get(body.reportUrl) \o ")"
                ELSE "") >>

(* _createCommentBody(body): the lines of the template literal.            *)
_createCommentBody(body) ==
  << "Comparison result:",
     "    - Failed items: " \o ToString(body.failedItemsCount),
     "    - New items: " \o ToString(body.newItemsCount),
     "    - Deleted items: " \o ToString(body.deletedItemsCount),
     "    - Passed items: " \o ToString(body.passedItemsCount),
     "    " \o (IF body.shortDescription THEN " - Short descriptions enabled"
                ELSE ""),
     "    " \o (IF Truthy(body.reportUrl)
                THEN " - [Report URL](" \o Get(body.reportUrl) \o ")"
                ELSE "") >>

(* const prCommentBody: CommentToPrBody, with its optional reportUrl       *)
PrCommentBody(k) ==
  [apiOpt |-> inst._apiOpt,
   behavior |-> inst._behavior,
   branchName |-> Get(k.head.branch).name,
   headOid |-> k.sha1,
   failedItemsCount |-> k.params.comparisonResult.failedItems,
   newItemsCount |-> k.params.comparisonResult.newItems,
   deletedItemsCount |-> k.params.comparisonResult.deletedItems,
   passedItemsCount |-> k.params.comparisonResult.passedItems,
   shortDescription |-> inst._shortDescription,
   regconfigId |-> inst._regconfigId,
   reportUrl |-> IF Truthy(k.params.reportUrl) THEN k.params.reportUrl ELSE None]

----------------------------------------------------------------------------
(* The synchronous segments of notify, each running up to the next await   *)
(* or to the return.                                                       *)

(* CommentPhase that leaves an existing comment alone for behavior "once". *)
CommentPhase_OnceSkipsLookup(k) ==
  IF ~inst._prComment \/ inst._behavior = "once" THEN Finish(k)
  ELSE IF k.head.type = "branch" /\ IsSome(k.head.branch)
  THEN [k EXCEPT
          !.pc = "awaitList",
          !.prCommentBody = Some(PrCommentBody(k)),
          !.log = Append(@, Entry("verbose", "params.reportUrl: ",
                                  <<k.params.reportUrl>>)),
          !.reqs = Append(@, Request("pulls.list",
                     [owner |-> inst._apiOpt.owner,
                      repo |-> inst._apiOpt.repository,
                      head |-> inst._apiOpt.owner \o ":"
                               \o PrCommentBody(k).branchName]))]
  ELSE Finish([k EXCEPT
          !.log = Append(@, Entry("warn",
                     "HEAD is not attached into any branches.", <<>>))])

(* if (this._prComment) { ... await this._octokit.rest.pulls.list(...)     *)
CommentPhase(k) ==
  IF ~inst._prComment THEN Finish(k)
  ELSE IF k.head.type = "branch" /\ IsSome(k.head.branch)
  THEN [k EXCEPT
          !.pc = "awaitList",
          !.prCommentBody = Some(PrCommentBody(k)),
          !.log = Append(@, Entry("verbose", "params.reportUrl: ",
                                  <<k.params.reportUrl>>)),
          !.reqs = Append(@, Request("pulls.list",
                     [owner |-> inst._apiOpt.owner,
                      repo |-> inst._apiOpt.repository,
                      head |-> inst._apiOpt.owner \o ":"
                               \o PrCommentBody(k).branchName]))]
  ELSE Finish([k EXCEPT
          !.log = Append(@, Entry("warn",
                     "HEAD is not attached into any branches.", <<>>))])

(* StatusPhase that issues the lookup together with the status update,     *)
(* without waiting for the status update to settle.                        *)
StatusPhase_Concurrent(k) ==
  IF inst._setCommitStatus /\ inst._prComment /\ IsSome(k.head.branch)
  THEN [k EXCEPT
          !.pc = "awaitStatus",
          !.prCommentBody = Some(PrCommentBody(k)),
          !.reqs = @ \o <<Request("createCommitStatus",
                            [owner |-> inst._apiOpt.owner,
                             repo |-> inst._apiOpt.repository,
                             sha |-> k.sha1,
                             state |-> k.state,
                             description |-> k.description,
                             context |-> "regression-tests",
                             target_url |-> k.params.reportUrl]),
                          Request("pulls.list",
                            [owner |-> inst._apiOpt.owner,
                             repo |-> inst._apiOpt.repository,
                             head |-> inst._apiOpt.owner \o ":"
                                      \o PrCommentBody(k).branchName])>>]
  ELSE CommentPhase(k)

(* StatusPhase that reads the commit id from head.commit only.             *)
StatusPhase_CommitOnly(k) ==
  IF inst._setCommitStatus
  THEN [k EXCEPT
          !.pc = "awaitStatus",
          !.reqs = Append(@, Request("createCommitStatus",
                     [owner |-> inst._apiOpt.owner,
                      repo |-> inst._apiOpt.repository,
                      sha |-> IF IsSome(k.head.commit)
                              THEN Get(k.head.commit).hash ELSE "undefined",
                      state |-> k.state,
                      description |-> k.description,
                      context |-> "regression-tests",
                      target_url |-> k.params.reportUrl]))]
  ELSE CommentPhase(k)

(* StatusPhase that takes the commit id from a place all invocations       *)
(* share (here: the one invocation 1 resolved) instead of its own local.   *)
StatusPhase_SharedSha(k) ==
  IF inst._setCommitStatus
  THEN [k EXCEPT
          !.pc = "awaitStatus",
          !.reqs = Append(@, Request("createCommitStatus",
                     [owner |-> inst._apiOpt.owner,
                      repo |-> inst._apiOpt.repository,
                      sha |-> IF call[1].pc # "idle" THEN call[1].sha1
                              ELSE k.sha1,
                      state |-> k.state,
                      description |-> k.description,
                      context |-> "regression-tests",
                      target_url |-> k.params.reportUrl]))]
  ELSE CommentPhase(k)

(* StatusPhase without the test of this._setCommitStatus.                  *)
StatusPhase_Unconditional(k) ==
  [k EXCEPT
     !.pc = "awaitStatus",
     !.reqs = Append(@, Request("createCommitStatus",
                [owner |-> inst._apiOpt.owner,
                 repo |-> inst._apiOpt.repository,
                 sha |-> k.sha1,
                 state |-> k.state,
                 description |-> k.description,
                 context |-> "regression-tests",
                 target_url |-> k.params.reportUrl]))]

(* if (this._setCommitStatus) { await createCommitStatus(...)              *)
StatusPhase(k) ==
  IF inst._setCommitStatus
  THEN [k EXCEPT
          !.pc = "awaitStatus",
          !.reqs = Append(@, Request("createCommitStatus",
                     [owner |-> inst._apiOpt.owner,
                      repo |-> inst._apiOpt.repository,
                      sha |-> k.sha1,
                      state |-> k.state,
                      description |-> k.description,
                      context |-> "regression-tests",
                      target_url |-> k.params.reportUrl]))]
  ELSE CommentPhase(k)

----------------------------------------------------------------------------
(* A state that also counts the passed items.                              *)
StateOf_WithPassed(r) ==
  IF r.failedItems + r.newItems + r.deletedItems + r.passedItems = 0
  THEN "success"
  ELSE "failure"

(* const state = failed + new + deleted === 0 ? "success" : "failure"      *)
StateOf(r) ==
  IF r.failedItems + r.newItems + r.deletedItems = 0 THEN "success"
  ELSE "failure"

(* const description = state === "success" ? ... : ...                     *)
DescriptionOf(state) ==
  IF state = "success" THEN "Regression testing passed"
  ELSE "Regression testing failed"

(* Unresolved without its return: the call goes on with no commit id.      *)
Unresolved_FallsThrough(k) ==
  StatusPhase([k EXCEPT
     !.sha1 = "undefined",
     !.log = Append(@, Entry("error",
                "Can't detect HEAD branch or commit.", <<>>))])

(* else { this._logger.error(...); return Promise.resolve(); }             *)
Unresolved(k) ==
  [k EXCEPT !.pc = "done",
            !.log = Append(@, Entry("error",
                       "Can't detect HEAD branch or commit.", <<>>)),
            !.result = [status |-> "fulfilled", value |-> None]]

(* notify(params), from its entry to the first await or to its return.     *)
(* h is what this._repo.readHeadSync() returns.                            *)
notify(c, h, p) ==
  /\ inst.initialised
  /\ call[c].pc = "idle"
  /\ LET k0 == [call[c] EXCEPT
                  !.head = h,
                  !.params = p,
                  !.state = StateOf(p.comparisonResult),
                  !.description = DescriptionOf(StateOf(p.comparisonResult))]
     IN call' = [call EXCEPT ![c] =
          IF IsSome(h.branch)
          THEN StatusPhase([k0 EXCEPT !.sha1 = Get(h.branch).commit.hash])
          ELSE IF IsSome(h.commit)
          THEN StatusPhase([k0 EXCEPT !.sha1 = Get(h.commit).hash])
          ELSE Unresolved(k0)]
  /\ UNCHANGED inst

(* createCommitStatusSettled with the info entry written before the        *)
(* outcome of the call is known.                                           *)
createCommitStatusSettled_LogsFirst(c, o) ==
  /\ call[c].pc = "awaitStatus"
  /\ LET k == [call[c] EXCEPT
                 !.reqs = Settle(@, o),
                 !.log = Append(@, Entry("info",
                            "Updated commit status for ${sha1} .",
                            <<call[c].sha1>>))]
     IN call' = [call EXCEPT ![c] =
          IF o.status = "fulfilled" THEN CommentPhase(k)
          ELSE Caught(k, o.value)]
  /\ UNCHANGED inst

(* createCommitStatus settles: the rest of the try block, or the catch.    *)
createCommitStatusSettled(c, o) ==
  /\ call[c].pc = "awaitStatus"
  /\ LET k == [call[c] EXCEPT !.reqs = Settle(@, o)]
     IN call' = [call EXCEPT ![c] =
          IF o.status = "fulfilled"
          THEN CommentPhase([k EXCEPT
                 !.log = Append(@, Entry("info",
                            "Updated commit status for ${sha1} .",
                            <<k.sha1>>))])
          ELSE Caught(k, o.value)]
  /\ UNCHANGED inst

(* The last pull request of the list instead of the first.                 *)
LastPull(data) == data[Len(data)]

(* const pr = pulls.data[0]                                                *)
FirstPull(data) == data[1]

(* pulls.list settles: createComment for the first pull request, the       *)
(* warning for an empty list, or the catch.                                *)
pullsListSettled(c, o) ==
  /\ call[c].pc = "awaitList"
  /\ LET k == [call[c] EXCEPT !.reqs = Settle(@, o)]
     IN call' = [call EXCEPT ![c] =
          IF o.status = "fulfilled"
          THEN IF Len(o.value.data) > 0
               THEN LET pr == FirstPull(o.value.data)
                    IN [k EXCEPT
                          !.pc = "awaitComment",
                          !.pr = Some(pr),
                          !.log = Append(@, Entry("verbose", "pr: ", <<pr>>)),
                          !.reqs = Append(@, Request("issues.createComment",
                             [owner |-> inst._apiOpt.owner,
                              repo |-> inst._apiOpt.repository,
                              issue_number |-> pr.number,
                              body |-> _createCommentBody(Get(k.prCommentBody))]))]
               ELSE Finish([k EXCEPT
                      !.log = Append(@, Entry("warn",
                         "No pull request found for branch ${branchName}.",
                         <<Get(k.prCommentBody).branchName>>))])
          ELSE Caught(k, o.value)]
  /\ UNCHANGED inst

(* issues.createComment settles: the info entry, or the catch.             *)
createCommentSettled(c, o) ==
  /\ call[c].pc = "awaitComment"
  /\ LET k == [call[c] EXCEPT !.reqs = Settle(@, o)]
     IN call' = [call EXCEPT ![c] =
          IF o.status = "fulfilled"
          THEN Finish([k EXCEPT
                 !.log = Append(@, Entry("info",
                            "Commented on PR ${owner}/${repository}#${number} .",
                            <<inst._apiOpt.owner, inst._apiOpt.repository,
                              Get(k.pr).number>>))])
          ELSE Caught(k, o.value)]
  /\ UNCHANGED inst

----------------------------------------------------------------------------
(* One comparison run: init, then a single notify invocation.              *)
Next ==
  \/ \E cfg \in PluginCreateOptions : init(cfg)
  \/ \E h \in Heads, p \in NotifyParams : notify(1, h, p)
  \/ \E o \in PlainSettlements : createCommitStatusSettled(1, o)
  \/ \E o \in ListSettlements : pullsListSettled(1, o)
  \/ \E o \in PlainSettlements : createCommentSettled(1, o)

Spec == Init /\ [][Next]_vars

(* Comparison results that differ in their failed items only: they cover   *)
(* both states and keep the runs below small.                              *)
LeanResults ==
  {r \in ComparisonResults :
     r.newItems = 0 /\ r.deletedItems = 0 /\ r.passedItems = 0}
LeanParams == [comparisonResult : LeanResults, reportUrl : Maybe(Urls)]

NextLean ==
  \/ \E cfg \in PluginCreateOptions : init(cfg)
  \/ \E h \in Heads, p \in LeanParams : notify(1, h, p)
  \/ \E o \in PlainSettlements : createCommitStatusSettled(1, o)
  \/ \E o \in ListSettlements : pullsListSettled(1, o)
  \/ \E o \in PlainSettlements : createCommentSettled(1, o)

(* One run in which every remote call settles eventually: the event loop   *)
(* resumes notify once the promise it awaits is settled.                   *)
FairSpec ==
  /\ Init /\ [][NextLean]_vars
  /\ WF_vars(\E o \in PlainSettlements : createCommitStatusSettled(1, o))
  /\ WF_vars(\E o \in ListSettlements : pullsListSettled(1, o))
  /\ WF_vars(\E o \in PlainSettlements : createCommentSettled(1, o))

----------------------------------------------------------------------------
(* Two runs that differ in prCommentBehavior only.  Run 1 is any run of    *)
(* notify.  init is then called again on the instance with the same        *)
(* options but another prCommentBehavior, and run 2 is given the head,     *)
(* the params and the remote responses that run 1 saw.                     *)

(* init(config) called on an instance that is initialised already.         *)
initAgain(cfg) ==
  /\ inst.initialised
  /\ \A c \in CallIds : call[c].pc \in {"idle", "done"}
  /\ inst' = [initialised |-> TRUE,
              _noEmit |-> cfg.noEmit,
              _apiOpt |-> cfg.options,
              _prComment |-> NotFalse(cfg.options.prComment),
              _behavior |-> OrElse(cfg.options.prCommentBehavior, "default"),
              _setCommitStatus |-> NotFalse(cfg.options.setCommitStatus),
              _shortDescription |-> OrElse(cfg.options.shortDescription, FALSE),
              _regconfigId |-> OrElse(cfg.options.regconfigId, "")]
  /\ UNCHANGED call

(* The response run 1 got from api, if it called it.                       *)
SameResponse(api, o) ==
  \A i \in DOMAIN call[1].reqs :
     call[1].reqs[i].api = api => o = call[1].reqs[i].outcome

NextPair ==
  \/ \E cfg \in PluginCreateOptions : init(cfg)
  \/ \E h \in Heads, p \in LeanParams : notify(1, h, p)
  \/ \E o \in PlainSettlements : createCommitStatusSettled(1, o)
  \/ \E o \in ListSettlements : pullsListSettled(1, o)
  \/ \E o \in PlainSettlements : createCommentSettled(1, o)
  \/ \E b \in Maybe(PrCommentBehavior) :
       /\ call[1].pc = "done" /\ call[2].pc = "idle"
       /\ b # inst._apiOpt.prCommentBehavior
       /\ initAgain([noEmit |-> inst._noEmit,
                     options |-> [inst._apiOpt EXCEPT !.prCommentBehavior = b]])
  \/ /\ call[1].pc = "done"
     /\ notify(2, call[1].head, call[1].params)
  \/ \E o \in PlainSettlements :
       SameResponse("createCommitStatus", o) /\ createCommitStatusSettled(2, o)
  \/ \E o \in ListSettlements :
       SameResponse("pulls.list", o) /\ pullsListSettled(2, o)
  \/ \E o \in PlainSettlements :
       SameResponse("issues.createComment", o) /\ createCommentSettled(2, o)

SpecPair == Init /\ [][NextPair]_vars

----------------------------------------------------------------------------
(* Two notify invocations on one instance, interleaved at their awaits.    *)
(* The instance is configured without dry run, with the default comment    *)
(* behavior and description, and with each of prComment and                *)
(* setCommitStatus omitted or false.                                       *)
TwoConfigs ==
  {cfg \in PluginCreateOptions :
     /\ ~cfg.noEmit
     /\ cfg.options.prCommentBehavior = None
     /\ cfg.options.shortDescription = None
     /\ cfg.options.prComment # Some(TRUE)
     /\ cfg.options.setCommitStatus # Some(TRUE)}

NextTwo ==
  \/ \E cfg \in TwoConfigs : init(cfg)
  \/ \E c \in CallIds, h \in Heads, p \in LeanParams : notify(c, h, p)
  \/ \E c \in CallIds, o \in PlainSettlements : createCommitStatusSettled(c, o)
  \/ \E c \in CallIds, o \in ListSettlements : pullsListSettled(c, o)
  \/ \E c \in CallIds, o \in PlainSettlements : createCommentSettled(c, o)

SpecTwo == Init /\ [][NextTwo]_vars

----------------------------------------------------------------------------
(* Vocabulary of the properties.                                           *)
Done(c) == call[c].pc = "done"
Started(c) == call[c].pc # "idle"
ReqIdx(c, api) == {i \in DOMAIN call[c].reqs : call[c].reqs[i].api = api}
Issued(c, api) == ReqIdx(c, api) # {}
OutcomeIs(c, api, status) ==
  \E i \in ReqIdx(c, api) : call[c].reqs[i].outcome.status = status
FailedReqs(c) ==
  {i \in DOMAIN call[c].reqs : call[c].reqs[i].outcome.status = "rejected"}
Logged(c, level, text) ==
  \E i \in DOMAIN call[c].log :
     call[c].log[i].level = level /\ call[c].log[i].text = text
OnBranch(c) == IsSome(call[c].head.branch)
Detached(c) == ~IsSome(call[c].head.branch) /\ IsSome(call[c].head.commit)
NoHead(c) == ~IsSome(call[c].head.branch) /\ ~IsSome(call[c].head.commit)
Counts(c) == call[c].params.comparisonResult
(* The failures notify hands back: the value its promise is fulfilled with *)
ReturnedFailures(c) ==
  IF IsSome(call[c].result.value) THEN Get(call[c].result.value) ELSE <<>>

(* C1: when setCommitStatus and postComment are enabled and HEAD is on a   *)
(* branch, a failed createCommitStatus is still followed by the pull       *)
(* request lookup, and by the comment when the lookup returns a pull       *)
(* request.                                                                *)
C1_StatusFailureDoesNotBlockComment ==
  \A c \in CallIds :
    (/\ Done(c)
     /\ inst._setCommitStatus /\ inst._prComment /\ OnBranch(c)
     /\ OutcomeIs(c, "createCommitStatus", "rejected"))
    => /\ Issued(c, "pulls.list")
       /\ (\E i \in ReqIdx(c, "pulls.list") :
             /\ call[c].reqs[i].outcome.status = "fulfilled"
             /\ Len(call[c].reqs[i].outcome.value.data) > 0)
          => Issued(c, "issues.createComment")

(* C2: whatever the head, the policy and the outcomes of the remote        *)
(* calls, the promise notify returns is never rejected.                    *)
C2_NotifyNeverRejects ==
  \A c \in CallIds : call[c].result.status # "rejected"

(* C3: with the dry-run flag set at init, no notify call issues            *)
(* createCommitStatus or createComment.                                    *)
C3_DryRunIssuesNoMutation ==
  \A c \in CallIds :
    (Started(c) /\ inst._noEmit)
    => /\ ~Issued(c, "createCommitStatus")
       /\ ~Issued(c, "issues.createComment")

(* C4: notify returns the list of the remote failures it collected: it     *)
(* completes normally and the list has one entry per remote call that      *)
(* failed (one entry when only the status update failed, none when every   *)
(* attempted call succeeded).                                              *)
C4_ReturnsCollectedFailures ==
  \A c \in CallIds :
    Done(c)
    => /\ call[c].result.status = "fulfilled"
       /\ Len(ReturnedFailures(c)) = Cardinality(FailedReqs(c))

(* C5: when HEAD resolves to neither a branch nor a commit, notify logs    *)
(* an error, issues no remote call whatever the policy, and completes      *)
(* normally.                                                               *)
C5_UnresolvedHeadNoAction ==
  \A c \in CallIds :
    (Started(c) /\ NoHead(c))
    => /\ Done(c)
       /\ call[c].reqs = <<>>
       /\ call[c].log =
            <<Entry("error", "Can't detect HEAD branch or commit.", <<>>)>>
       /\ call[c].result = [status |-> "fulfilled", value |-> None]

C5_Witness ==
  \E c \in CallIds :
    /\ Done(c) /\ NoHead(c)
    /\ inst._setCommitStatus /\ inst._prComment /\ ~inst._noEmit
    /\ Logged(c, "error", "Can't detect HEAD branch or commit.")

(* C6: on a detached HEAD with postComment enabled, a completed notify     *)
(* has logged the warning, has issued neither pulls.list nor               *)
(* createComment, and has attempted createCommitStatus exactly when        *)
(* setCommitStatus is enabled.                                             *)
C6_DetachedHeadWarnsAndSkipsComment ==
  \A c \in CallIds :
    (Done(c) /\ Detached(c) /\ inst._prComment)
    => /\ Logged(c, "warn", "HEAD is not attached into any branches.")
       /\ ~Issued(c, "pulls.list")
       /\ ~Issued(c, "issues.createComment")
       /\ Issued(c, "createCommitStatus") <=> inst._setCommitStatus

(* C7: with setCommitStatus and postComment both disabled, notify issues   *)
(* no remote call for any head and comparison result, and reports no       *)
(* failure.                                                                *)
C7_BothDisabledNoRemoteCall ==
  \A c \in CallIds :
    (Started(c) /\ ~inst._setCommitStatus /\ ~inst._prComment)
    => /\ Done(c)
       /\ call[c].reqs = <<>>
       /\ call[c].result = [status |-> "fulfilled", value |-> None]

C7_Witness ==
  \E c \in CallIds :
    /\ Done(c) /\ OnBranch(c)
    /\ ~inst._setCommitStatus /\ ~inst._prComment
    /\ StateOf(Counts(c)) = "failure"

(* C8: when the pull request lookup fails, no comment is posted and the    *)
(* failure reaches the caller (the promise of notify is rejected with      *)
(* it); when the lookup finds no pull request, notify only warns and       *)
(* completes normally.  The two outcomes differ for the caller.            *)
C8_LookupFailureIsReported ==
  \A c \in CallIds :
    \A i \in ReqIdx(c, "pulls.list") :
      LET o == call[c].reqs[i].outcome IN
      /\ o.status = "rejected"
         => /\ ~Issued(c, "issues.createComment")
            /\ Done(c)
            /\ call[c].result.status = "rejected"
            /\ call[c].result.value
                 = Some(IF isGhAppError(o.value) THEN o.value.error
                        ELSE o.value)
      /\ (o.status = "fulfilled" /\ Len(o.value.data) = 0)
         => /\ Done(c)
            /\ call[c].result = [status |-> "fulfilled", value |-> None]
            /\ Logged(c, "warn",
                      "No pull request found for branch ${branchName}.")

C8_Witness ==
  \E c \in CallIds :
    /\ Done(c)
    /\ OutcomeIs(c, "pulls.list", "rejected")
    /\ call[c].result.status = "rejected"

(* C9: when the lookup succeeds with an empty list, notify warns, posts    *)
(* no comment and reports no failure; with a non-empty list exactly one    *)
(* createComment is issued, for the number of the first pull request of    *)
(* the list.                                                               *)
C9_FirstPullRequestIsCommented ==
  \A c \in CallIds :
    \A i \in ReqIdx(c, "pulls.list") :
      LET o == call[c].reqs[i].outcome IN
      o.status = "fulfilled"
      => IF Len(o.value.data) = 0
         THEN /\ Logged(c, "warn",
                        "No pull request found for branch ${branchName}.")
              /\ ~Issued(c, "issues.createComment")
              /\ call[c].result = [status |-> "fulfilled", value |-> None]
         ELSE /\ Cardinality(ReqIdx(c, "issues.createComment")) = 1
              /\ \A j \in ReqIdx(c, "issues.createComment") :
                   call[c].reqs[j].args.issue_number = o.value.data[1].number

C9_Witness ==
  \E c \in CallIds :
    \E i \in ReqIdx(c, "pulls.list") :
      LET o == call[c].reqs[i].outcome IN
      /\ o.status = "fulfilled"
      /\ Len(o.value.data) = 2
      /\ o.value.data[1].number # o.value.data[2].number
      /\ OutcomeIs(c, "issues.createComment", "fulfilled")

(* C10: the state sent with the commit status is "success" iff             *)
(* failed+new+deleted = 0 and "failure" otherwise, whatever passed is,     *)
(* and the description is "Regression testing passed" for success and      *)
(* "Regression testing failed" for failure.                                *)
C10_StateAndDescription ==
  \A c \in CallIds :
    \A i \in ReqIdx(c, "createCommitStatus") :
      LET a == call[c].reqs[i].args
          zero == Counts(c).failedItems + Counts(c).newItems
                    + Counts(c).deletedItems = 0
      IN /\ a.state \in {"success", "failure"}
         /\ a.state = "success" <=> zero
         /\ a.state = "success" => a.description = "Regression testing passed"
         /\ a.state = "failure" => a.description = "Regression testing failed"

C10_Witness ==
  \E c \in CallIds :
    \E i \in ReqIdx(c, "createCommitStatus") :
      /\ call[c].reqs[i].args.state = "success"
      /\ Counts(c).passedItems > 0

----------------------------------------------------------------------------
(* The lines a rendered comment body is made of.                           *)
CountLabels ==
  <<"    - Failed items: ", "    - New items: ",
    "    - Deleted items: ", "    - Passed items: ">>
IsCountLine(l) ==
  \E i \in DOMAIN CountLabels, n \in 0..MaxItems :
     l = CountLabels[i] \o ToString(n)
IsShortLine(l) == l = "     - Short descriptions enabled"
IsUrlLine(l) ==
  \E u \in Urls \ {""} : l = "     - [Report URL](" \o u \o ")"
ExpectedCountLines(r) ==
  <<CountLabels[1] \o ToString(r.failedItems),
    CountLabels[2] \o ToString(r.newItems),
    CountLabels[3] \o ToString(r.deletedItems),
    CountLabels[4] \o ToString(r.passedItems)>>
Occurrences(body, P(_)) == Len(SelectSeq(body, P))

(* C11: with shortDescription false and no report URL, the rendered body   *)
(* is exactly the header line followed by the four count lines, with no    *)
(* further line, not even an empty or whitespace-only one.                 *)
C11_BodyIsHeaderAndFourLines ==
  \A c \in CallIds :
    \A i \in ReqIdx(c, "issues.createComment") :
      (~inst._shortDescription /\ ~Truthy(call[c].params.reportUrl))
      => call[c].reqs[i].args.body
           = <<"Comparison result:">> \o ExpectedCountLines(Counts(c))

(* C12: every rendered body has exactly four count lines, in the order     *)
(* failed, new, deleted, passed, each with its own count; it has one       *)
(* short-description line when shortDescription is true and none           *)
(* otherwise, and one report-URL line when a (non-empty) report URL was    *)
(* supplied and none otherwise.                                            *)
C12_BodyLines ==
  \A c \in CallIds :
    \A i \in ReqIdx(c, "issues.createComment") :
      LET body == call[c].reqs[i].args.body IN
      /\ SelectSeq(body, IsCountLine) = ExpectedCountLines(Counts(c))
      /\ Occurrences(body, IsShortLine)
           = IF inst._shortDescription THEN 1 ELSE 0
      /\ Occurrences(body, IsUrlLine)
           = IF Truthy(call[c].params.reportUrl) THEN 1 ELSE 0

C12_Witness ==
  \E c \in CallIds :
    \E i \in ReqIdx(c, "issues.createComment") :
      /\ inst._shortDescription
      /\ Truthy(call[c].params.reportUrl)
      /\ Counts(c).newItems = 1 /\ Counts(c).passedItems = 1
      /\ Len(call[c].reqs[i].args.body) = 7

(* C15: every failed remote call is logged before notify completes: a      *)
(* structured error at error level with its message, any other failure     *)
(* at some level as well.                                                  *)
C15_EveryFailureIsLogged ==
  \A c \in CallIds :
    Done(c)
    => \A i \in FailedReqs(c) :
         LET e == call[c].reqs[i].outcome.value IN
         IF isGhAppError(e)
         THEN Logged(c, "error", e.error.message)
         ELSE \E j \in DOMAIN call[c].log :
                call[c].log[j].level \in {"error", "warn"}

(* C17: within one notify call, pulls.list is issued only after every      *)
(* createCommitStatus of the call has completed, and createComment only    *)
(* after a pulls.list of the call has succeeded with a non-empty list.     *)
C17_RemoteCallsAreOrdered ==
  \A c \in CallIds :
    LET rs == call[c].reqs IN
    /\ \A j \in ReqIdx(c, "pulls.list") :
         \A i \in ReqIdx(c, "createCommitStatus") :
           i < j /\ rs[i].outcome.status = "fulfilled"
    /\ \A j \in ReqIdx(c, "issues.createComment") :
         \E i \in ReqIdx(c, "pulls.list") :
           /\ i < j
           /\ rs[i].outcome.status = "fulfilled"
           /\ Len(rs[i].outcome.value.data) > 0

C17_Witness ==
  \E c \in CallIds :
    /\ Len(call[c].reqs) = 3
    /\ call[c].reqs[1].api = "createCommitStatus"
    /\ call[c].reqs[2].api = "pulls.list"
    /\ call[c].reqs[3].api = "issues.createComment"

(* C18: every createCommitStatus carries the tip commit of the branch      *)
(* when HEAD is on a branch and the detached commit otherwise, the         *)
(* configured owner and repository, the context "regression-tests", and    *)
(* the commit id that the comment payload of the same call carries.        *)
C18_CommitStatusArguments ==
  \A c \in CallIds :
    \A i \in ReqIdx(c, "createCommitStatus") :
      LET a == call[c].reqs[i].args IN
      /\ a.sha = IF OnBranch(c) THEN Get(call[c].head.branch).commit.hash
                 ELSE Get(call[c].head.commit).hash
      /\ a.owner = inst._apiOpt.owner
      /\ a.repo = inst._apiOpt.repository
      /\ a.context = "regression-tests"
      /\ Issued(c, "issues.createComment")
         => Get(call[c].prCommentBody).headOid = a.sha

C18_Witness ==
  \E c \in CallIds :
    /\ Started(c) /\ OnBranch(c)
    /\ Issued(c, "createCommitStatus")
    /\ Issued(c, "issues.createComment")
    /\ Get(call[c].prCommentBody).headOid \in BranchTips

(* C19: after init, commenting and the commit status are enabled unless    *)
(* their option is explicitly false, commentBehavior defaults to           *)
(* "default" and shortDescription to false; a completed notify after an    *)
(* init with all these options omitted and HEAD on a branch has attempted  *)
(* both the status update and the pull request lookup.                     *)
C19_PolicyDefaults ==
  inst.initialised
  => LET o == inst._apiOpt IN
     /\ inst._prComment = (o.prComment # Some(FALSE))
     /\ inst._setCommitStatus = (o.setCommitStatus # Some(FALSE))
     /\ o.prCommentBehavior = None => inst._behavior = "default"
     /\ o.shortDescription = None => inst._shortDescription = FALSE
     /\ \A c \in CallIds :
          (/\ Done(c) /\ OnBranch(c)
           /\ o.prComment = None /\ o.setCommitStatus = None
           /\ o.prCommentBehavior = None /\ o.shortDescription = None)
          => /\ Issued(c, "createCommitStatus")
             /\ Issued(c, "pulls.list")

(* C20: the info entry 'Updated commit status' is logged only when         *)
(* createCommitStatus of the same call succeeded, the info entry           *)
(* 'Commented on PR' only when createComment of the same call succeeded,   *)
(* and no call has both the success entry and a failure of one action.     *)
C20_SuccessEntriesOnlyAfterSuccess ==
  \A c \in CallIds :
    /\ Logged(c, "info", "Updated commit status for ${sha1} .")
       => /\ OutcomeIs(c, "createCommitStatus", "fulfilled")
          /\ ~OutcomeIs(c, "createCommitStatus", "rejected")
    /\ Logged(c, "info", "Commented on PR ${owner}/${repository}#${number} .")
       => /\ OutcomeIs(c, "issues.createComment", "fulfilled")
          /\ ~OutcomeIs(c, "issues.createComment", "rejected")

C20_Witness ==
  \E c \in CallIds :
    /\ Logged(c, "info", "Updated commit status for ${sha1} .")
    /\ OutcomeIs(c, "issues.createComment", "rejected")
    /\ Done(c)

(* C13: every notify call that was made completes, and within one call     *)
(* createCommitStatus, pulls.list and createComment are each invoked at    *)
(* most once: a failed remote call is not retried.                         *)
AtMostOnce ==
  \A c \in CallIds :
    \A api \in {"createCommitStatus", "pulls.list", "issues.createComment"} :
      Cardinality(ReqIdx(c, api)) <= 1

C13_TerminatesWithoutRetry ==
  /\ []AtMostOnce
  /\ \A c \in CallIds : Started(c) ~> Done(c)

C13_Witness ==
  \E c \in CallIds :
    /\ Done(c)
    /\ Len(call[c].reqs) = 3
    /\ OutcomeIs(c, "issues.createComment", "rejected")

(* C14: a run of notify under another prCommentBehavior, with the same     *)
(* head, policy, comparison result and remote responses, issues the same   *)
(* sequence of remote calls and ends with the same outcome.                *)
C14_BehaviorDoesNotAlterControlFlow ==
  /\ \A i \in DOMAIN call[2].reqs :
       /\ i \in DOMAIN call[1].reqs
       /\ call[2].reqs[i].api = call[1].reqs[i].api
       /\ call[2].reqs[i].args = call[1].reqs[i].args
  /\ Done(2)
     => /\ call[2].reqs = call[1].reqs
        /\ call[2].result = call[1].result

C14_Witness ==
  /\ Done(1) /\ Done(2)
  /\ Len(call[2].reqs) = 3
  /\ Get(call[1].prCommentBody).behavior = "default"
  /\ Get(call[2].prCommentBody).behavior = "once"

(* C16: two notify calls interleaved on one initialised instance do not    *)
(* interfere: no step of notify changes the configuration of the           *)
(* instance, and every remote call of a notify call carries the commit     *)
(* id, the counts and the report URL of that call.                         *)
OwnData(c) ==
  \A i \in DOMAIN call[c].reqs :
    LET r == call[c].reqs[i]
        own == IF OnBranch(c) THEN Get(call[c].head.branch).commit.hash
               ELSE Get(call[c].head.commit).hash
    IN /\ r.api = "createCommitStatus"
          => /\ r.args.sha = own
             /\ r.args.state = StateOf(Counts(c))
             /\ r.args.target_url = call[c].params.reportUrl
       /\ r.api = "pulls.list"
          => r.args.head = inst._apiOpt.owner \o ":"
                             \o Get(call[c].head.branch).name
       /\ r.api = "issues.createComment"
          => /\ Get(call[c].prCommentBody).headOid = own
             /\ SelectSeq(r.args.body, IsCountLine)
                  = ExpectedCountLines(Counts(c))
             /\ Occurrences(r.args.body, IsUrlLine)
                  = IF Truthy(call[c].params.reportUrl) THEN 1 ELSE 0

C16_InterleavedCallsDoNotInterfere ==
  /\ [](\A c \in CallIds : OwnData(c))
  /\ [][inst.initialised => inst' = inst]_vars

C16_Witness ==
  /\ call[1].pc = "awaitComment" /\ call[2].pc = "awaitStatus"
  /\ call[1].sha1 # call[2].sha1
  /\ Counts(1) # Counts(2)
  /\ Truthy(call[1].params.reportUrl) /\ ~Truthy(call[2].params.reportUrl)

====
